---- MODULE Spec2Model ----
(***************************************************************************)
(* slogzap: a slog.Handler backed by a zap.Logger.                         *)
(*                                                                         *)
(*   levelconv/conv.go   ToSlog, ToZap and their tables                     *)
(*   handler.go          Handler, New, WithLimit, Enabled, Handle,          *)
(*                       WithAttrs, WithGroup, clone                        *)
(*                                                                         *)
(* SpecConv applies the two conversions to inputs drawn from bounded       *)
(* ranges.  Spec is the handler used from one goroutine: a zap logger at    *)
(* any threshold, the handler New builds on it with any options, and the    *)
(* handlers derived from it.  SpecShared is the handler shared by several   *)
(* goroutines, the two statements of WithAttrs / WithGroup interleaving,    *)
(* while the threshold of the zap core is changed from outside.            *)
(***************************************************************************)
EXTENDS Integers, Sequences, FiniteSets, TLC

VARIABLES
    conv,       \* the last call of a conversion function: which, input, result
    threshold,  \* the level enabler of the zap core (shared by derived loggers)
    loggers,    \* zap.Logger values; a *zap.Logger is an index into this sequence
    handlers,   \* Handler structs; a *Handler is an index into this sequence
    returned,   \* the *Handler values that were given to a caller
    pc,         \* per goroutine: position inside WithAttrs / WithGroup
    local,      \* per goroutine: the local variable h of WithAttrs / WithGroup
    limitOpt,   \* history: the argument of the WithLimit option in effect, if any
    last,       \* the last completed call on a handler and what it did
    alive       \* FALSE once zap has terminated the process (FatalLevel write)

vars == <<conv, threshold, loggers, handlers, returned, pc, local, limitOpt, last, alive>>

handlerVars == <<threshold, loggers, handlers, returned, pc, local, limitOpt, last, alive>>

----------------------------------------------------------------------------
(* Bounds *)

\* SpecConv: how far the inputs of ToZap reach below LevelDebug and above 20.
SlogMargin == 40

\* How far zapcore.Level inputs (of ToSlog and of WithLimit) reach outside
\* DebugLevel..FatalLevel.
ZapMargin == 1

\* Spec: how far record levels reach below LevelDebug and above LevelError+12.
\* Between the two, record levels are the first and the last level of each
\* bucket of ToZap (SpecConv covers every level in between).
RecordMargin == 1

\* Spec: the number of Handler structs (the one New builds, and clones).
MaxHandlers == 2

\* SpecShared: the number of Handler structs.
MaxShared == 3

\* The number of options passed to New.
MaxOptions == 2

\* SpecShared: the number of goroutines calling into handlers.
NumProcs == 2

----------------------------------------------------------------------------
(* zapcore.Level and slog.Level constants (levelconv/conv.go:17-32) *)

DebugLevel == -1
InfoLevel == 0
WarnLevel == 1
ErrorLevel == 2
DPanicLevel == 3
PanicLevel == 4
FatalLevel == 5

LevelDebug == -4
LevelInfo == 0
LevelWarn == 4
LevelError == 8

\* math.MaxInt (handler.go:45), as the largest integer TLC represents; it is
\* only ever compared with record levels.
MaxInt == 2147483647

\* The seven levels zapcore defines.
ZapLevels == {DebugLevel, InfoLevel, WarnLevel, ErrorLevel, DPanicLevel, PanicLevel, FatalLevel}

----------------------------------------------------------------------------
(* levelconv/conv.go *)

\* var toSlog = map[zapcore.Level]slog.Level{...}
toSlog ==
    (DebugLevel :> LevelDebug) @@
    (InfoLevel :> LevelInfo) @@
    (WarnLevel :> LevelWarn) @@
    (ErrorLevel :> LevelError) @@
    (DPanicLevel :> LevelError + 4) @@
    (PanicLevel :> LevelError + 8) @@
    (FatalLevel :> LevelError + 12)

\* Mutant of ToSlog: the DPanic and Panic entries of the table swapped.
ToSlogSwapped(zlvl) ==
    IF zlvl = DPanicLevel THEN toSlog[PanicLevel]
    ELSE IF zlvl = PanicLevel THEN toSlog[DPanicLevel]
    ELSE IF zlvl \in DOMAIN toSlog THEN toSlog[zlvl] ELSE 0

\* func ToSlog: return toSlog[zlvl].  Indexing a Go map with a missing key
\* yields the zero value of the element type, slog.Level(0).
ToSlog(zlvl) ==
    IF zlvl \in DOMAIN toSlog THEN toSlog[zlvl] ELSE 0

\* var toZap = []*struct{ ilvl int; zlvl zapcore.Level }{...}
toZap == <<
    [ilvl |-> 4 * 0, zlvl |-> DebugLevel],
    [ilvl |-> 4 * 1, zlvl |-> InfoLevel],
    [ilvl |-> 4 * 2, zlvl |-> WarnLevel],
    [ilvl |-> 4 * 3, zlvl |-> ErrorLevel],
    [ilvl |-> 4 * 4, zlvl |-> DPanicLevel],
    [ilvl |-> 4 * 5, zlvl |-> PanicLevel] >>

\* The loop of ToZap from table index i on.
RECURSIVE ToZapFrom(_, _)
ToZapFrom(ilvl, i) ==
    IF i > Len(toZap) THEN FatalLevel
    ELSE IF ilvl < toZap[i].ilvl THEN toZap[i].zlvl
    ELSE ToZapFrom(ilvl, i + 1)

\* Mutant of ToZap: the comparison ilvl <= it.ilvl instead of ilvl < it.ilvl.
RECURSIVE ToZapFromLeq(_, _)
ToZapFromLeq(ilvl, i) ==
    IF i > Len(toZap) THEN FatalLevel
    ELSE IF ilvl <= toZap[i].ilvl THEN toZap[i].zlvl
    ELSE ToZapFromLeq(ilvl, i + 1)

ToZapLeq(slvl) == ToZapFromLeq(slvl, 1)

\* Mutant of ToZap: the loop falls through to PanicLevel instead of FatalLevel.
ToZapNoFatal(slvl) ==
    IF ToZapFrom(slvl, 1) = FatalLevel THEN PanicLevel ELSE ToZapFrom(slvl, 1)

\* Mutant of ToZap: the first threshold of the table is 4 * 1 instead of 4 * 0.
ToZapLowShift(slvl) ==
    IF slvl < 4 * 1 THEN DebugLevel ELSE ToZapFrom(slvl, 1)

\* func ToZap
ToZap(slvl) == ToZapFrom(slvl, 1)

----------------------------------------------------------------------------
(* The zap back-end, as far as the handler uses it *)

\* A zapcore.Field.  zap.Any(key, value) keeps the key; zap.Namespace(name)
\* opens a namespace.
AnyField(key) == [key |-> key, ns |-> FALSE]

Namespace(name) == [key |-> name, ns |-> TRUE]

\* (*zap.Logger).Level: the level of the logger's core.
LoggerLevel(l) == threshold

\* (*zap.Logger).With: a new logger on the same core with the fields added.
\* Of a logger's context the model keeps the number of fields; what the
\* fields are is the encoder's business.
ZapWith(l, fields) == [nfields |-> loggers[l].nfields + Len(fields)]

\* zapcore.Core.Enabled of a core built on the level enabler.
CoreEnabled(zlvl) == threshold <= zlvl

\* (*zap.Logger).Check: nil below DPanicLevel when the core is disabled;
\* otherwise a checked entry that holds the core when the core is enabled, and
\* the terminal hook of PanicLevel and FatalLevel.  nil when neither applies.
\* (A logger built without zap.Development: DPanicLevel has no hook.)
ZapCheck(l, zlvl) ==
    LET hook == IF zlvl = PanicLevel THEN "panic"
                ELSE IF zlvl = FatalLevel THEN "exit"
                ELSE "none"
        core == CoreEnabled(zlvl)
    IN  [nonNil |-> core \/ hook # "none", core |-> core, hook |-> hook,
         level |-> zlvl, logger |-> l]

\* (*zapcore.CheckedEntry).Write: the entries handed to the core.
ZapWrite(ce) == IF ce.nonNil /\ ce.core THEN <<ce.level>> ELSE <<>>

----------------------------------------------------------------------------
(* handler.go *)

Min(a, b) == IF a < b THEN a ELSE b

\* toField: zap.Any(attr.Key, attr.Value.Any())
toField(attr) == AnyField(attr)

\* func (o withLimit) apply(h *Handler)
apply(h, o) == [h EXCEPT !.limit = ToSlog(o)]

\* for _, o := range options { o.apply(h) }
RECURSIVE applyAll(_, _)
applyAll(h, opts) ==
    IF opts = <<>> THEN h ELSE applyAll(apply(h, Head(opts)), Tail(opts))

\* func New, the Handler it builds
NewHandler(logger, opts) ==
    applyAll([zap |-> logger,
              lvl |-> ToSlog(LoggerLevel(logger)),
              limit |-> MaxInt], opts)

\* func (h *Handler) Level
Level(h) == handlers[h].lvl

\* func (h *Handler) Limit
Limit(h) == handlers[h].limit

\* func (h *Handler) Logger
Logger(h) == handlers[h].zap

\* func (h *Handler) Enabled
Enabled(h, lvl) == handlers[h].lvl <= lvl

\* Mutant of HandleLevel: the limit is not applied.
HandleLevelNoLimit(h, lvl) == ToZap(lvl)

\* The level Handle asks zap to check: levelconv.ToZap(min(h.limit, r.Level))
HandleLevel(h, lvl) == ToZap(Min(handlers[h].limit, lvl))

\* Mutant of HandleReturn: a failed write of the core is returned as an error.
HandleReturnWriteError(ce, ok) ==
    IF ce.nonNil /\ ce.hook # "none" THEN ce.hook
    ELSE IF ce.nonNil /\ ce.core /\ ~ok THEN "error"
    ELSE "nil"

\* How Handle ends: ce.Write(fields...) returns nothing, and panics or exits
\* when the checked entry has a terminal hook; otherwise return nil.
HandleReturn(ce, ok) ==
    IF ce.nonNil /\ ce.hook # "none" THEN ce.hook ELSE "nil"

\* Mutant of cloneAddr: clone returns its receiver instead of a copy.
cloneAlias(hs, h) == h

\* func (h *Handler) clone: o := *h; return &o.  The address of the copy.
cloneAddr(hs, h) == Len(hs) + 1

\* The heap with the value v stored at address a.
Store(hs, a, v) ==
    [i \in 1..(IF a > Len(hs) THEN a ELSE Len(hs)) |-> IF i = a THEN v ELSE hs[i]]

----------------------------------------------------------------------------
(* Inputs *)

Procs == 1..NumProcs

\* zapcore.Level values: the seven levels and values outside them
\* (zapcore.Level is an int8; zapcore.InvalidLevel is FatalLevel + 1).
ZapInputs == (DebugLevel - ZapMargin)..(FatalLevel + ZapMargin)

SlogInputs == (LevelDebug - SlogMargin)..(LevelError + 12 + SlogMargin)

RecordLevels ==
    (LevelDebug - RecordMargin)..(LevelDebug - 1)
    \cup {4 * k : k \in -1..5}
    \cup {4 * k + 3 : k \in -1..4}
    \cup (LevelError + 12 + 1)..(LevelError + 12 + RecordMargin)

\* SpecShared: records at the level of zapcore.FatalLevel.
SharedLevels == {LevelError + 12}

\* SpecShared: the levels the core is switched between.
SharedThresholds == {DebugLevel, ErrorLevel}

OptionLists == UNION {[1..n -> ZapInputs] : n \in 0..MaxOptions}

\* The option lists of the package's tests: none, and WithLimit(ErrorLevel).
TestOptionLists == {<<>>, <<ErrorLevel>>}

AttrLists == {<<>>, <<"a">>}

GroupNames == {"", "G"}

NoCall ==
    [op |-> "none", recv |-> 0, arg |-> <<>>, ret |-> 0, level |-> 0,
     enabled |-> FALSE, checked |-> <<>>, written |-> <<>>, failed |-> FALSE,
     outcome |-> "none"]

NoLocal == [h |-> 0, recv |-> 0, arg |-> <<>>, fields |-> <<>>]

NoConv == [fn |-> "none", in |-> 0, out |-> 0, failed |-> FALSE]

----------------------------------------------------------------------------
(* The handler as a state machine *)

Init ==
    /\ conv = NoConv
    /\ threshold \in ZapLevels
    /\ loggers = << [nfields |-> 0] >>
    /\ handlers = <<>>
    /\ returned = {}
    /\ pc = [p \in Procs |-> "idle"]
    /\ local = [p \in Procs |-> NoLocal]
    /\ limitOpt = <<>>
    /\ last = NoCall
    /\ alive = TRUE

\* slogzap.New(logger, options...), options drawn from lists
New(lists) ==
    /\ alive
    /\ handlers = <<>>
    /\ \E opts \in lists :
        /\ handlers' = <<NewHandler(1, opts)>>
        /\ limitOpt' = IF opts = <<>> THEN <<>> ELSE <<opts[Len(opts)]>>
    /\ returned' = {1}
    /\ last' = [NoCall EXCEPT !.op = "New", !.ret = 1]
    /\ UNCHANGED <<conv, threshold, loggers, pc, local, alive>>

\* h.Enabled(ctx, lvl), lvl drawn from levels
CallEnabled(p, levels) ==
    /\ alive
    /\ pc[p] = "idle"
    /\ \E h \in returned, lvl \in levels :
        last' = [NoCall EXCEPT !.op = "Enabled", !.recv = h, !.level = lvl,
                               !.enabled = Enabled(h, lvl)]
    /\ UNCHANGED <<conv, threshold, loggers, handlers, returned, pc, local, limitOpt, alive>>

\* h.Handle(ctx, r), r.Level drawn from levels; ok tells whether the write of
\* the core succeeds.
CallHandle(p, levels) ==
    /\ alive
    /\ pc[p] = "idle"
    /\ \E h \in returned, lvl \in levels, ok \in BOOLEAN :
        LET ce == ZapCheck(handlers[h].zap, HandleLevel(h, lvl))
        IN  /\ (ZapWrite(ce) = <<>> => ok)
            /\ last' = [NoCall EXCEPT
                    !.op = "Handle", !.recv = h, !.level = lvl,
                    !.enabled = Enabled(h, lvl),
                    !.checked = <<ce.level>>,
                    !.written = ZapWrite(ce),
                    !.failed = ~ok,
                    !.outcome = HandleReturn(ce, ok)]
            /\ alive' = (HandleReturn(ce, ok) # "exit")
    /\ UNCHANGED <<conv, threshold, loggers, handlers, returned, pc, local, limitOpt>>

\* h.WithAttrs(attrs) with len(attrs) = 0: return h
WithAttrsEmpty(p) ==
    /\ alive
    /\ pc[p] = "idle"
    /\ \E h \in returned, attrs \in AttrLists :
        /\ Len(attrs) = 0
        /\ last' = [NoCall EXCEPT !.op = "WithAttrs", !.recv = h, !.arg = attrs,
                                  !.ret = h]
    /\ UNCHANGED <<conv, threshold, loggers, handlers, returned, pc, local, limitOpt, alive>>

\* h.WithAttrs(attrs) with len(attrs) > 0, up to h = h.clone(); the heap holds
\* fewer than max Handler structs
WithAttrsClone(p, max) ==
    /\ alive
    /\ pc[p] = "idle"
    /\ Len(handlers) < max
    /\ \E h \in returned, attrs \in AttrLists :
        /\ Len(attrs) > 0
        /\ LET o == cloneAddr(handlers, h)
           IN  /\ handlers' = Store(handlers, o, handlers[h])
               /\ local' = [local EXCEPT ![p] =
                    [h |-> o, recv |-> h, arg |-> attrs,
                     fields |-> [i \in 1..Len(attrs) |-> toField(attrs[i])]]]
    /\ pc' = [pc EXCEPT ![p] = "WithAttrs"]
    /\ UNCHANGED <<conv, threshold, loggers, returned, limitOpt, last, alive>>

\* h.WithGroup(name), up to h = h.clone(); the heap holds fewer than max
\* Handler structs
WithGroupClone(p, max) ==
    /\ alive
    /\ pc[p] = "idle"
    /\ Len(handlers) < max
    /\ \E h \in returned, name \in GroupNames :
        LET o == cloneAddr(handlers, h)
        IN  /\ handlers' = Store(handlers, o, handlers[h])
            /\ local' = [local EXCEPT ![p] =
                    [h |-> o, recv |-> h, arg |-> <<name>>,
                     fields |-> <<Namespace(name)>>]]
    /\ pc' = [pc EXCEPT ![p] = "WithGroup"]
    /\ UNCHANGED <<conv, threshold, loggers, returned, limitOpt, last, alive>>

\* h.zap = h.zap.With(fields...); return h   (the end of WithAttrs and WithGroup)
Rebind(p) ==
    /\ alive
    /\ pc[p] \in {"WithAttrs", "WithGroup"}
    /\ LET o == local[p].h
       IN  /\ loggers' = Append(loggers, ZapWith(handlers[o].zap, local[p].fields))
           /\ handlers' = [handlers EXCEPT ![o].zap = Len(loggers) + 1]
           /\ returned' = returned \cup {o}
           /\ last' = [NoCall EXCEPT !.op = pc[p], !.recv = local[p].recv,
                                     !.arg = local[p].arg, !.ret = o]
    /\ pc' = [pc EXCEPT ![p] = "idle"]
    /\ local' = [local EXCEPT ![p] = NoLocal]
    /\ UNCHANGED <<conv, threshold, limitOpt, alive>>

\* The level of the logger's core is changed from outside the handler
\* (zap.AtomicLevel.SetLevel), to a level drawn from levels.
SetLevel(levels) ==
    /\ alive
    /\ \E l \in levels :
        /\ l # threshold
        /\ threshold' = l
    /\ UNCHANGED <<conv, loggers, handlers, returned, pc, local, limitOpt, last, alive>>

\* One goroutine, every threshold, every option list, every record level.
Next ==
    \/ New(OptionLists)
    \/ CallEnabled(1, RecordLevels)
    \/ CallHandle(1, RecordLevels)
    \/ WithAttrsEmpty(1)
    \/ WithAttrsClone(1, MaxHandlers)
    \/ WithGroupClone(1, MaxHandlers)
    \/ Rebind(1)

Spec == Init /\ [][Next]_vars

\* Several goroutines on shared handlers, the threshold changing meanwhile.
InitShared ==
    /\ Init
    /\ threshold = DebugLevel

NextShared ==
    \/ New(TestOptionLists)
    \/ SetLevel(SharedThresholds)
    \/ \E p \in Procs : CallEnabled(p, SharedLevels)
    \/ \E p \in Procs : CallHandle(p, SharedLevels)
    \/ \E p \in Procs : WithAttrsEmpty(p)
    \/ \E p \in Procs : WithAttrsClone(p, MaxShared)
    \/ \E p \in Procs : WithGroupClone(p, MaxShared)
    \/ \E p \in Procs : Rebind(p)

SpecShared == InitShared /\ [][NextShared]_vars

----------------------------------------------------------------------------
(* The conversions applied to bounded inputs *)

\* levelconv.ToZap(slvl)
CallToZap ==
    /\ \E slvl \in SlogInputs :
        conv' = [fn |-> "ToZap", in |-> slvl, out |-> ToZap(slvl), failed |-> FALSE]
    /\ UNCHANGED handlerVars

\* levelconv.ToSlog(zlvl)
CallToSlog ==
    /\ \E zlvl \in ZapInputs :
        conv' = [fn |-> "ToSlog", in |-> zlvl, out |-> ToSlog(zlvl), failed |-> FALSE]
    /\ UNCHANGED handlerVars

\* levelconv.ToZap(levelconv.ToSlog(zlvl))
CallToZapOfToSlog ==
    /\ \E zlvl \in ZapInputs :
        conv' = [fn |-> "ToZapOfToSlog", in |-> zlvl, out |-> ToZap(ToSlog(zlvl)),
                 failed |-> FALSE]
    /\ UNCHANGED handlerVars

NextConv ==
    \/ CallToZap
    \/ CallToSlog
    \/ CallToZapOfToSlog

SpecConv == InitShared /\ [][NextConv]_vars

----------------------------------------------------------------------------
(* Properties *)

\* The WithLimit option in effect names one of the seven zap levels.
LimitSet == limitOpt # <<>> /\ limitOpt[1] \in ZapLevels

\* The buckets of ToZap as the documentation of ToZap lists them.
Bucket(s) ==
    CASE s < 0 -> DebugLevel
      [] 0 <= s /\ s < 4 -> InfoLevel
      [] 4 <= s /\ s < 8 -> WarnLevel
      [] 8 <= s /\ s < 12 -> ErrorLevel
      [] 12 <= s /\ s < 16 -> DPanicLevel
      [] 16 <= s /\ s < 20 -> PanicLevel
      [] s >= 20 -> FatalLevel

\* C1: ToZap is a total bucketing function: Debug below 0, Info on [0,4),
\* Warn on [4,8), Error on [8,12), DPanic on [12,16), Panic on [16,20), Fatal
\* from 20 on; a boundary value falls in the upper bucket.
C1_ToZapBuckets ==
    conv.fn = "ToZap" =>
        /\ conv.out = Bucket(conv.in)
        /\ conv.out \in ZapLevels

\* C1 witness: ToZap was applied to the boundary 20 and gave FatalLevel.
C1_Witness ==
    conv.fn = "ToZap" /\ conv.in = 20 /\ conv.out = FatalLevel

\* C2 (as claimed): with WithLimit(L), a record above the limit for which
\* Enabled is true makes Handle hand exactly one entry to the back-end, at
\* level L.
C2_NeverSuppressed ==
    (/\ last.op = "Handle"
     /\ LimitSet
     /\ last.level > Limit(last.recv)
     /\ last.enabled)
    => last.written = <<limitOpt[1]>>

\* C3: with WithLimit(L), every handler of the lineage has Limit() = ToSlog(L),
\* and every entry Handle has zap check or write is at a level <= L; with
\* L <= Error, none is at DPanic, Panic or Fatal.
C3_CeilingBounds ==
    LimitSet =>
        LET L == limitOpt[1] IN
        /\ \A h \in DOMAIN handlers : Limit(h) = ToSlog(L)
        /\ last.op = "Handle" =>
            /\ \A i \in DOMAIN last.checked : last.checked[i] <= L
            /\ \A i \in DOMAIN last.written : last.written[i] <= L
            /\ L <= ErrorLevel =>
                \A i \in DOMAIN last.checked :
                    last.checked[i] \notin {DPanicLevel, PanicLevel, FatalLevel}

\* C3 witness: a derived handler under WithLimit(ErrorLevel) handled a record
\* at the level of FatalLevel and wrote it at ErrorLevel.
C3_Witness ==
    /\ limitOpt = <<ErrorLevel>>
    /\ last.op = "Handle"
    /\ last.recv # 1
    /\ last.level = LevelError + 12
    /\ last.checked = <<ErrorLevel>>
    /\ last.written = <<ErrorLevel>>

\* C4 (as claimed): Handle on a record whose level is below Level() writes
\* nothing to the back-end.
C4_BelowLevelDiscarded ==
    (last.op = "Handle" /\ last.level < Level(last.recv))
    => last.written = <<>>

\* The table of ToSlog as its documentation lists it.
SlogOf ==
    [z \in ZapLevels |->
        CASE z = DebugLevel -> -4
          [] z = InfoLevel -> 0
          [] z = WarnLevel -> 4
          [] z = ErrorLevel -> 8
          [] z = DPanicLevel -> 12
          [] z = PanicLevel -> 16
          [] z = FatalLevel -> 20]

\* C5: ToSlog maps Debug, Info, Warn, Error, DPanic, Panic, Fatal to -4, 0, 4,
\* 8, 12, 16, 20, so it is strictly increasing, and New sets Level() to ToSlog
\* of the logger's threshold.
C5_ToSlogTable ==
    /\ \A z \in ZapLevels : ToSlog(z) = SlogOf[z]
    /\ \A y, z \in ZapLevels : y < z => ToSlog(y) < ToSlog(z)
    /\ \A h \in DOMAIN handlers : Level(h) = SlogOf[threshold]

\* C5 witness: New built a handler on a logger at FatalLevel; its Level() is 20.
C5_Witness ==
    /\ threshold = FatalLevel
    /\ 1 \in returned
    /\ Level(1) = 20

\* C6: ToZap(ToSlog(x)) = x for each of the seven zap levels x.
C6_RoundTrip ==
    (conv.fn = "ToZapOfToSlog" /\ conv.in \in ZapLevels) => conv.out = conv.in

\* C6 witness: the round trip was applied to DPanicLevel.
C6_Witness ==
    conv.fn = "ToZapOfToSlog" /\ conv.in = DPanicLevel /\ conv.out = DPanicLevel

C8_NoMutation ==
    [][ /\ \A h \in returned :
            /\ h \in DOMAIN handlers'
            /\ handlers'[h] = handlers[h]
            /\ h \in returned'
        /\ (last' # last /\ last'.op \in {"WithAttrs", "WithGroup"}) =>
            IF last'.op = "WithAttrs" /\ last'.arg = <<>>
            THEN /\ last'.ret = last'.recv
                 /\ handlers' = handlers
            ELSE /\ last'.ret \notin returned
                 /\ last'.ret \in returned'
                 /\ last'.recv \in returned
                 /\ handlers'[last'.ret].zap # handlers[last'.recv].zap
                 /\ handlers'[last'.ret].lvl = handlers[last'.recv].lvl
                 /\ handlers'[last'.ret].limit = handlers[last'.recv].limit
      ]_vars

\* C8 witness: WithGroup("") returned a copy while another goroutine is inside
\* a call on the same receiver, after the threshold of the core was changed.
C8_Witness ==
    /\ last.op = "WithGroup"
    /\ last.arg = <<"">>
    /\ last.ret # last.recv
    /\ \E p \in Procs : pc[p] # "idle" /\ local[p].recv = last.recv
    /\ Level(last.recv) # ToSlog(threshold)

\* C9 (as claimed): ToSlog on a value outside the seven zap levels stops with
\* a failure instead of returning a level.
C9_FailFast ==
    (conv.fn = "ToSlog" /\ conv.in \notin ZapLevels) => conv.failed

\* C10 (as claimed): ToZap maps each of -3, -2, -1, 0, 1, 2, 3 to DebugLevel.
C10_LowEndDebug ==
    (conv.fn = "ToZap" /\ conv.in \in -3..3) => conv.out = DebugLevel

\* C10 (amended): ToZap maps each of LevelDebug-3 .. LevelDebug+3, that is
\* -7 .. -1, to DebugLevel, and each of 0, 1, 2, 3 to InfoLevel.
C10_AroundLevelDebug ==
    conv.fn = "ToZap" =>
        /\ conv.in \in (LevelDebug - 3)..(LevelDebug + 3) => conv.out = DebugLevel
        /\ conv.in \in 0..3 => conv.out = InfoLevel

\* C10 witness: ToZap was applied to -1, the last level of the Debug bucket.
C10_Witness ==
    conv.fn = "ToZap" /\ conv.in = LevelDebug + 3 /\ conv.out = DebugLevel

====
